---- MODULE Spec2Model ----
(***************************************************************************)
(* IIS Auto Server: the update-check / download-verify / build pipeline    *)
(* and its progress record (index.js, driveClient.js, builder.js,          *)
(* utils.js).                                                              *)
(*                                                                         *)
(* Node.js runs the program on one JavaScript thread: a callback and the   *)
(* promise continuations it releases run to completion before any other    *)
(* callback starts.  The position of the single background run is `pc`;    *)
(* while it is at a position of JsHeld the thread belongs to the run and   *)
(* no request handler can execute.  What is concurrent with the thread is  *)
(* the outside: the network, the libuv thread pool that opens and writes   *)
(* the download file, and the death of the process.                        *)
(***************************************************************************)
EXTENDS Integers, Sequences, FiniteSets, TLC

\* ---------------------------------------------------------------- bounds
\* concurrent HTTP requests in flight
MaxReq == 2
\* distinct modpack versions the remote catalog may publish
NumVersions == 1
\* chunks of the longest response body
MaxBody == 1

Requests == 1..MaxReq
Versions == 1..NumVersions
\* index.js line 439..447: the ids of buildSteps
NumSteps == 9
StepIds == 1..NumSteps

\* ------------------------------------------------------------ the state
VARIABLES
  proc,              \* "loaded" (modules evaluated, listen callback pending), "up",
                     \* or dead: "killed" from outside, "uncaught" by an uncaught exception
  isBuildInProgress, \* index.js: let isBuildInProgress
  buildProgress,     \* index.js: let buildProgress
  buildSteps,        \* index.js: let buildSteps; id -> [status, detail]
  pc,                \* position of the performBuild call in flight, "idle" if none
  updateInfo,        \* the probe result performBuild was called with
  err,               \* message of the error being thrown through performBuild, "" if none
  req,               \* request -> the handler suspended at `await checkForUpdate`,
                     \* or the response it sent
  modpackTemp,       \* storage/modpack-temp.zip: NoFile or the bytes it holds
  dest,              \* the fs.WriteStream created by downloadFile
  downloadedBytes,   \* downloadFile: let downloadedBytes
  latestZip,         \* storage/latest.zip: NoFile, Partial, or the version it was built from
  currentTxt,        \* storage/current.txt: 0 if absent or empty, else the version
  undeleted,         \* modpack-temp.zip is a file whose unlinkSync threw (the logged warning)
  orphan,            \* modpack-temp.zip is a file the previous process lifetime left
  input,             \* the arguments of a library function called on its own
  output             \* what that call returned or threw

vars == <<proc, isBuildInProgress, buildProgress, buildSteps, pc, updateInfo, err,
          req, modpackTemp, dest, downloadedBytes, latestZip, currentTxt, undeleted,
          orphan, input, output>>

\* a library function called on its own, outside the server
call == <<input, output>>

\* the files under storage/, with what is known of modpack-temp.zip
disk == <<modpackTemp, latestZip, currentTxt, undeleted, orphan>>
record == <<isBuildInProgress, buildProgress, buildSteps>>

NoFile == -1
\* no library function is being called on its own
NoCall == [fn |-> "none"]
\* a latest.zip whose writing was begun and not finished
Partial == 0
NoInfo == [latestVersion |-> 0, size |-> 0, md5 |-> 0]
\* a request slot: free, suspended in a handler (state "probing", with the
\* currentVersion and hasServer the handler read before its await), or answered
\* (state "sent", with the response and, for a file, what latest.zip held)
NoReq == [route |-> "none", state |-> "free", currentVersion |-> 0, hasServer |-> FALSE,
          probe |-> "none", kind |-> "none", body |-> NoFile]

\* a thread that takes request callbacks between the finally block and the
\* .catch handler
JsHeldUntilFinally ==
  {"start", "clean", "template", "extract", "mods", "scripts", "archive",
   "archiving", "save", "cleanup", "finalize", "catch", "finally", "release"}
\* positions at which performBuild runs on the JavaScript thread
JsHeld == {"start", "clean", "template", "extract", "mods", "scripts", "archive",
           "archiving", "save", "cleanup", "finalize", "catch", "finally",
           "release", "dotcatch"}
\* positions at which performBuild is suspended on a promise
Suspended == {"link", "connect", "redirect", "stream", "verify", "pause"}
ThreadFree == proc = "up" /\ pc \notin JsHeld

\* ------------------------------------------------------ index.js helpers
\* the initial buildSteps array (detail is '' or undefined: both print empty)
InitialSteps == [i \in StepIds |-> [status |-> "pending", detail |-> ""]]

updateBuildStep(steps, stepId, status, detail) ==
  IF stepId \in DOMAIN steps
    THEN [steps EXCEPT ![stepId] = [status |-> status, detail |-> detail]]
    ELSE steps

\* a reset that leaves the stages as they are
resetBuildStepsSkipped(steps) == steps
\* resetBuildSteps: every stage pending, every detail empty
resetBuildSteps(steps) ==
  [i \in DOMAIN steps |-> [status |-> "pending", detail |-> ""]]

\* buildSteps.find(s => s.status === 'in-progress'): the first one, 0 if none
InProgressIds(steps) == {i \in DOMAIN steps : steps[i].status = "in-progress"}
\* a find that matches no stage
currentStepNone(steps) == 0
\* the stage the catch block marks
currentStep(steps) ==
  IF InProgressIds(steps) = {} THEN 0
  ELSE CHOOSE i \in InProgressIds(steps) : \A j \in InProgressIds(steps) : i <= j

\* ------------------------------------------------------ utils.js helpers
\* getCurrentVersion(): null (0) when current.txt is absent or empty
getCurrentVersion == currentTxt
\* hasBuiltServer(): fs.existsSync(latest.zip), whatever the file holds
hasBuiltServer == latestZip # NoFile

\* ------------------------------------------------- driveClient.js helpers
\* the digest of the first n bytes of the published file (never 0; its
\* hexadecimal form has a letter)
MD5Of(n) == n + 10
\* the catalog entries checkForUpdate can report: the published file holds
\* MaxBody bytes; the catalog may omit its size and its md5
ProbeResults ==
  [latestVersion : Versions, size : {0, MaxBody}, md5 : {0, MD5Of(MaxBody)}]
\* checkForUpdate: hasUpdate = currentVersion !== latestModpack.version, where
\* the caller passes currentVersion || 'none'
hasUpdate(currentVersion, info) == currentVersion # info.latestVersion

\* a verifier that accepts every byte count
SizeNeverChecked(bytes, info) == FALSE
\* verifyDownload, the size check
SizeMismatch(bytes, info) == info.size # 0 /\ bytes # info.size
\* verifyDownload, whether the hash is computed
WantsMD5(info) == info.md5 # 0

\* ------------------------------------------------------------------ Init
\* the state after the modules are evaluated on a fresh storage volume
Init ==
  /\ proc = "loaded"
  /\ isBuildInProgress = FALSE
  /\ buildProgress = ""
  /\ buildSteps = InitialSteps
  /\ pc = "idle"
  /\ updateInfo = NoInfo
  /\ err = ""
  /\ req = [r \in Requests |-> NoReq]
  /\ modpackTemp = NoFile
  /\ dest = "none"
  /\ downloadedBytes = 0
  /\ latestZip = NoFile
  /\ currentTxt = 0
  /\ undeleted = FALSE
  /\ orphan = FALSE
  /\ input = NoCall
  /\ output = NoCall

\* ------------------------------------------------------ process lifetime
\* try { fs.unlinkSync(modpackPath) } catch (err) { log(Warning) }: the file
\* is removed, or unlinkSync throws and the file stays
unlinkSync ==
  \/ modpackTemp' = NoFile /\ undeleted' = FALSE /\ orphan' = FALSE
  \/ UNCHANGED <<modpackTemp, orphan>> /\ undeleted' = TRUE

\* a start that leaves the storage directory as it finds it
cleanupSkipped == UNCHANGED <<modpackTemp, undeleted, orphan>>
\* cleanupOrphanedFiles: modpack-temp.zip is unlinked if it exists; a failure
\* of the unlink is caught and logged
cleanupOrphanedFiles ==
  IF modpackTemp # NoFile
    THEN unlinkSync
    ELSE UNCHANGED <<modpackTemp, undeleted, orphan>>

\* the callback of app.listen: it runs before any request is dispatched
Listen ==
  /\ proc = "loaded"
  /\ proc' = "up"
  /\ cleanupOrphanedFiles
  /\ UNCHANGED <<call, isBuildInProgress, buildProgress, buildSteps, pc, updateInfo, err,
                 req, dest, downloadedBytes, latestZip, currentTxt>>

\* the memory of a process that has just evaluated index.js
FreshMemory ==
  /\ isBuildInProgress' = FALSE
  /\ buildProgress' = ""
  /\ buildSteps' = InitialSteps
  /\ pc' = "idle"
  /\ updateInfo' = NoInfo
  /\ err' = ""
  /\ req' = [r \in Requests |-> NoReq]
  /\ dest' = "none"
  /\ downloadedBytes' = 0

\* the process dies: the files stay as they are; its memory is gone, and is
\* shown as the memory the next process will start with
Die(cause) ==
  /\ proc' = cause
  /\ FreshMemory
  /\ orphan' = (modpackTemp # NoFile)
  /\ undeleted' = FALSE
  /\ UNCHANGED <<call, modpackTemp, latestZip, currentTxt>>

\* the process is killed from outside (SIGKILL, power loss) at any point
Crash ==
  /\ proc = "up"
  /\ Die("killed")

\* a supervisor starts the program again: `node src/index.js`
Restart ==
  /\ proc \in {"killed", "uncaught"}
  /\ proc' = "loaded"
  /\ UNCHANGED <<call, isBuildInProgress, buildProgress, buildSteps, pc, updateInfo, err,
                 req, dest, downloadedBytes, disk>>

\* ------------------------------------------------------------- responses
Respond(r, probe, kind, body) ==
  req' = [req EXCEPT ![r] = [route |-> req[r].route, state |-> "sent",
                             currentVersion |-> 0, hasServer |-> req[r].hasServer,
                             probe |-> probe, kind |-> kind, body |-> body]]

\* a serving path that answers with the error page
serveNothing(r, probe) == Respond(r, probe, "error", NoFile)
\* serveExistingServer: the file at latest.zip is streamed as it is
serveExistingServer(r, probe) == Respond(r, probe, "file", latestZip)

\* a slot a new request can take
Free(r) == req[r].state # "probing"

\* a handler runs up to `await checkForUpdate(currentVersion || 'none')`
Suspend(r, route) ==
  req' = [req EXCEPT ![r] = [route |-> route, state |-> "probing",
                             currentVersion |-> getCurrentVersion,
                             hasServer |-> hasBuiltServer,
                             probe |-> "none", kind |-> "none", body |-> NoFile]]

\* the handler of `route` is suspended in slot r
Probing(r, route) == req[r].state = "probing" /\ req[r].route = route

\* --------------------------------------------------------- GET /version
\* the handler reads currentVersion and hasBuiltServer for the JSON body only
VersionBegin(r) ==
  /\ ThreadFree
  /\ Free(r)
  /\ req' = [req EXCEPT ![r] = [NoReq EXCEPT !.route = "version", !.state = "probing"]]
  /\ UNCHANGED <<call, proc, isBuildInProgress, buildProgress, buildSteps, pc, updateInfo,
                 err, dest, downloadedBytes, disk>>

\* the probe returns or throws: either way res.json reports the record
VersionRespond(r) ==
  /\ ThreadFree
  /\ Probing(r, "version")
  /\ Respond(r, "none", "json", NoFile)
  /\ UNCHANGED <<call, proc, isBuildInProgress, buildProgress, buildSteps, pc, updateInfo,
                 err, dest, downloadedBytes, disk>>

\* -------------------------------------------------------- GET /download
DownloadBegin(r) ==
  /\ ThreadFree
  /\ Free(r)
  /\ IF isBuildInProgress
       THEN req' = [req EXCEPT ![r] = [route |-> "download", state |-> "sent",
                                       currentVersion |-> 0, hasServer |-> hasBuiltServer,
                                       probe |-> "none",
                                       kind |-> "redirect:/building", body |-> NoFile]]
       ELSE Suspend(r, "download")
  /\ UNCHANGED <<call, proc, isBuildInProgress, buildProgress, buildSteps, pc, updateInfo,
                 err, dest, downloadedBytes, disk>>

\* checkForUpdate threw
DownloadProbeFailed(r) ==
  /\ ThreadFree
  /\ Probing(r, "download")
  /\ IF req[r].hasServer
       THEN serveExistingServer(r, "failed")
       ELSE Respond(r, "failed", "redirect:/building", NoFile)
  /\ UNCHANGED <<call, proc, isBuildInProgress, buildProgress, buildSteps, pc, updateInfo,
                 err, dest, downloadedBytes, disk>>

\* checkForUpdate returned info
DownloadProbed(r, info) ==
  /\ ThreadFree
  /\ Probing(r, "download")
  /\ IF ~req[r].hasServer \/ hasUpdate(req[r].currentVersion, info)
       THEN Respond(r, "ok", "redirect:/building", NoFile)
       ELSE serveExistingServer(r, "ok")
  /\ UNCHANGED <<call, proc, isBuildInProgress, buildProgress, buildSteps, pc, updateInfo,
                 err, dest, downloadedBytes, disk>>

\* -------------------------------------------------------- GET /building
BuildingBegin(r) ==
  /\ ThreadFree
  /\ Free(r)
  /\ Suspend(r, "building")
  /\ UNCHANGED <<call, proc, isBuildInProgress, buildProgress, buildSteps, pc, updateInfo,
                 err, dest, downloadedBytes, disk>>

\* checkForUpdate threw: redirect to the built server, or the error page
BuildingProbeFailed(r) ==
  /\ ThreadFree
  /\ Probing(r, "building")
  /\ IF req[r].hasServer
       THEN Respond(r, "failed", "redirect:/download", NoFile)
       ELSE Respond(r, "failed", "error", NoFile)
  /\ UNCHANGED <<call, proc, isBuildInProgress, buildProgress, buildSteps, pc, updateInfo,
                 err, dest, downloadedBytes, disk>>

\* no update and a server exists: redirect to /download
BuildingUpToDate(r, info) ==
  /\ ThreadFree
  /\ Probing(r, "building")
  /\ ~hasUpdate(req[r].currentVersion, info) /\ req[r].hasServer
  /\ Respond(r, "ok", "redirect:/download", NoFile)
  /\ UNCHANGED <<call, proc, isBuildInProgress, buildProgress, buildSteps, pc, updateInfo,
                 err, dest, downloadedBytes, disk>>

\* a build is needed and one is running: only the progress page is sent
BuildingJoin(r, info) ==
  /\ ThreadFree
  /\ Probing(r, "building")
  /\ ~(~hasUpdate(req[r].currentVersion, info) /\ req[r].hasServer)
  /\ isBuildInProgress
  /\ Respond(r, "ok", "progress", NoFile)
  /\ UNCHANGED <<call, proc, isBuildInProgress, buildProgress, buildSteps, pc, updateInfo,
                 err, dest, downloadedBytes, disk>>

\* a gate that lets every trigger through
GateAlwaysOpen == TRUE
\* the gate: `if (!isBuildInProgress)`
Gate == ~isBuildInProgress

\* a build is needed and none is running: the handler takes the flag, resets
\* the record and calls performBuild(updateInfo)
BuildingAccept(r, info) ==
  /\ ThreadFree
  /\ Probing(r, "building")
  /\ ~(~hasUpdate(req[r].currentVersion, info) /\ req[r].hasServer)
  /\ Gate
  /\ isBuildInProgress' = TRUE
  /\ buildSteps' = resetBuildSteps(buildSteps)
  /\ buildProgress' = "Starting build process..."
  /\ updateInfo' = info
  /\ pc' = "start"
  /\ Respond(r, "ok", "progress", NoFile)
  /\ UNCHANGED <<call, proc, err, dest, downloadedBytes, disk>>

\* ------------------------------------------------- performBuild: download
\* performBuild up to its first await: stage 1 completed, stage 2 in-progress,
\* downloadFile asks for the download link
PerformBuildStart ==
  /\ proc = "up" /\ pc = "start"
  /\ buildSteps' = updateBuildStep(updateBuildStep(buildSteps, 1, "completed", ""),
                                   2, "in-progress", "")
  /\ buildProgress' = "Downloading modpack from Yandex.Disk..."
  /\ pc' = "link"
  /\ UNCHANGED <<call, proc, isBuildInProgress, updateInfo, err, req, dest,
                 downloadedBytes, disk>>

\* an error is thrown into performBuild at its await: reject(error)
Reject(message) ==
  /\ err' = message
  /\ pc' = "catch"

\* makeApiRequest resolved with an href
LinkResolved ==
  /\ proc = "up" /\ pc = "link"
  /\ pc' = "connect"
  /\ UNCHANGED <<call, proc, record, updateInfo, err, req, dest, downloadedBytes,
                 disk>>

\* makeApiRequest rejected, or the answer holds no href
LinkFailed ==
  /\ proc = "up" /\ pc = "link"
  /\ Reject("Failed to get download link from Yandex.Disk")
  /\ UNCHANGED <<call, proc, record, updateInfo, req, dest, downloadedBytes,
                 disk>>

\* fs.createWriteStream(destPath): the file is opened on the thread pool, the
\* pending open of a stream an earlier run left is superseded
createWriteStream ==
  /\ dest' = "opening"
  /\ downloadedBytes' = 0

\* https.get(downloadUrl) answered: a 301/302 is followed once, any other
\* status is piped to the file
Connected ==
  /\ proc = "up" /\ pc = "connect"
  /\ \/ pc' = "redirect" /\ UNCHANGED <<dest, downloadedBytes>>
     \/ pc' = "stream" /\ createWriteStream
  /\ UNCHANGED <<call, proc, record, updateInfo, err, req, disk>>

\* https.get(redirectUrl) answered
Redirected ==
  /\ proc = "up" /\ pc = "redirect"
  /\ pc' = "stream"
  /\ createWriteStream
  /\ UNCHANGED <<call, proc, record, updateInfo, err, req, disk>>

\* the request's 'error' event
ConnectFailed ==
  /\ proc = "up" /\ pc \in {"connect", "redirect"}
  /\ Reject("socket hang up")
  /\ UNCHANGED <<call, proc, record, updateInfo, req, dest, downloadedBytes,
                 disk>>

\* the response's 'data' event
StreamData ==
  /\ proc = "up" /\ pc = "stream"
  /\ downloadedBytes < MaxBody
  /\ downloadedBytes' = downloadedBytes + 1
  /\ UNCHANGED <<call, proc, record, pc, updateInfo, err, req, dest, disk>>

\* the response's 'error' event
StreamError ==
  /\ proc = "up" /\ pc = "stream"
  /\ Reject("socket hang up")
  /\ UNCHANGED <<call, proc, record, updateInfo, req, dest, downloadedBytes,
                 disk>>

\* downloadFile resolved: performBuild marks stage 2 completed, stage 3
\* in-progress and sleeps 500 ms
DownloadResolved ==
  /\ buildSteps' = updateBuildStep(updateBuildStep(buildSteps, 2, "completed", ""),
                                   3, "in-progress", "")
  /\ buildProgress' = "Verifying file integrity..."
  /\ pc' = "pause"
  /\ UNCHANGED <<call, isBuildInProgress, err>>

\* the response's 'end' event: verifyDownload checks the size, then either
\* starts calculateMD5 or returns
StreamEnd ==
  /\ proc = "up" /\ pc = "stream"
  /\ IF SizeMismatch(downloadedBytes, updateInfo)
       THEN Reject("File size mismatch") /\ UNCHANGED record
       ELSE IF WantsMD5(updateInfo)
         THEN pc' = "verify" /\ UNCHANGED <<record, err>>
         ELSE DownloadResolved
  /\ UNCHANGED <<call, proc, updateInfo, req, dest, downloadedBytes, disk>>

\* calculateMD5 read the file at destPath as it is on the disk at that time
MD5Done ==
  /\ proc = "up" /\ pc = "verify"
  /\ IF modpackTemp = NoFile
       THEN Reject("ENOENT") /\ UNCHANGED record
       ELSE IF MD5Of(modpackTemp) # updateInfo.md5
         THEN Reject("MD5 hash mismatch") /\ UNCHANGED record
         ELSE DownloadResolved
  /\ UNCHANGED <<call, proc, updateInfo, req, dest, downloadedBytes, disk>>

\* ---------------------------------------------- the download's write stream
\* the thread pool opens modpack-temp.zip with flag 'w': created or truncated
DestOpen ==
  /\ proc = "up" /\ dest \in {"opening", "stale"}
  /\ dest' = IF dest = "opening" THEN "open" ELSE "none"
  /\ modpackTemp' = 0
  /\ orphan' = FALSE
  /\ undeleted' = FALSE
  /\ UNCHANGED <<call, proc, record, pc, updateInfo, err, req, downloadedBytes, latestZip,
                 currentTxt>>

\* a chunk the pipe handed to the stream reaches the file
DestWrite ==
  /\ proc = "up" /\ dest = "open"
  /\ modpackTemp # NoFile /\ modpackTemp < downloadedBytes
  /\ modpackTemp' = modpackTemp + 1
  /\ UNCHANGED <<call, proc, record, pc, updateInfo, err, req, dest, downloadedBytes,
                 latestZip, currentTxt, undeleted, orphan>>

\* the open or a write fails: the stream emits 'error', nothing listens for
\* it, and the uncaught exception ends the process
DestError ==
  /\ ThreadFree
  /\ \/ dest = "opening"
     \/ dest = "open" /\ modpackTemp # NoFile /\ modpackTemp < downloadedBytes
  /\ Die("uncaught")

\* ------------------------------------------------ performBuild: transform
\* the 500 ms timer fired: stage 3 completed, stage 4 in-progress, and
\* buildServer is entered; it has no await, so it runs in this same callback
TimerFired ==
  /\ proc = "up" /\ pc = "pause"
  /\ buildSteps' = updateBuildStep(updateBuildStep(buildSteps, 3, "completed", ""),
                                   4, "in-progress", "")
  /\ buildProgress' = "Building server..."
  /\ pc' = "clean"
  /\ UNCHANGED <<call, proc, isBuildInProgress, updateInfo, err, req, dest,
                 downloadedBytes, disk>>

\* a callback that starts the next stage and leaves the previous one as it is
progressCallbackKeeping(steps, tag) ==
  IF tag = "template" THEN updateBuildStep(steps, 5, "in-progress", "")
  ELSE IF tag = "extracting" THEN updateBuildStep(steps, 6, "in-progress", "")
  ELSE IF tag = "mods" THEN updateBuildStep(steps, 7, "in-progress", "")
  ELSE IF tag = "scripts" THEN updateBuildStep(steps, 8, "in-progress", "")
  ELSE steps
\* the progress callback performBuild hands to buildServer
progressCallback(steps, tag) ==
  IF tag = "template"
    THEN updateBuildStep(updateBuildStep(steps, 4, "completed", ""), 5, "in-progress", "")
  ELSE IF tag = "extracting"
    THEN updateBuildStep(updateBuildStep(steps, 5, "completed", ""), 6, "in-progress", "")
  ELSE IF tag = "mods"
    THEN updateBuildStep(updateBuildStep(steps, 6, "completed", ""), 7, "in-progress", "")
  ELSE IF tag = "scripts"
    THEN updateBuildStep(updateBuildStep(steps, 7, "completed", ""), 8, "in-progress", "")
  ELSE IF tag = "archiving"
    THEN updateBuildStep(steps, 8, "completed", "")
  ELSE steps

\* a catch block in buildServer that logs the error and returns
LogAndReturn(message) == err' = "" /\ pc' = "finalize"
\* buildServer's catch logs and rethrows: the error reaches performBuild
Throw(message) == Reject(message)
\* the message of a file-system call that failed inside buildServer
IOError == "EIO: i/o error"

\* step 1: deleteDirectory(tempDir), mkdirSync; then the template step's tag
\* is reported, before the copy is made
StepClean ==
  /\ proc = "up" /\ pc = "clean"
  /\ \/ /\ buildSteps' = progressCallback(buildSteps, "template")
        /\ pc' = "template"
        /\ UNCHANGED err
     \/ /\ Throw(IOError)
        /\ UNCHANGED buildSteps
  /\ UNCHANGED <<call, proc, isBuildInProgress, buildProgress, updateInfo, req, dest,
                 downloadedBytes, disk>>

\* step 2: copyDirectory(forge-clean, tempDir); then the extract step's tag
StepTemplate ==
  /\ proc = "up" /\ pc = "template"
  /\ \/ /\ buildSteps' = progressCallback(buildSteps, "extracting")
        /\ pc' = "extract"
        /\ UNCHANGED err
     \/ /\ Throw(IOError)
        /\ UNCHANGED buildSteps
  /\ UNCHANGED <<call, proc, isBuildInProgress, buildProgress, updateInfo, req, dest,
                 downloadedBytes, disk>>

\* new AdmZip(modpackPath) reads the file as it is on the disk: it is a zip
\* archive only if it holds every byte of the published file
ReadableArchive == modpackTemp = MaxBody

\* step 3: extractAllTo(tempDir, true)
StepExtract ==
  /\ proc = "up" /\ pc = "extract"
  /\ \/ /\ ReadableArchive
        /\ pc' = "mods"
        /\ UNCHANGED err
     \/ /\ Throw("Invalid or unsupported zip format")
  /\ UNCHANGED <<call, proc, record, updateInfo, req, dest, downloadedBytes,
                 disk>>

\* step 4: the denylisted mods are unlinked; then the tag "mods"
StepMods ==
  /\ proc = "up" /\ pc = "mods"
  /\ \/ /\ buildSteps' = progressCallback(buildSteps, "mods")
        /\ pc' = "scripts"
        /\ UNCHANGED err
     \/ /\ Throw(IOError)
        /\ UNCHANGED buildSteps
  /\ UNCHANGED <<call, proc, isBuildInProgress, buildProgress, updateInfo, req,
                 dest, downloadedBytes, disk>>

\* step 5: createStartScripts; then the tag "scripts"
StepScripts ==
  /\ proc = "up" /\ pc = "scripts"
  /\ \/ /\ buildSteps' = progressCallback(buildSteps, "scripts")
        /\ pc' = "archive"
        /\ UNCHANGED err
     \/ /\ Throw(IOError)
        /\ UNCHANGED buildSteps
  /\ UNCHANGED <<call, proc, isBuildInProgress, buildProgress, updateInfo, req,
                 dest, downloadedBytes, disk>>

\* step 6: the tag "archiving" is reported first; addDirectoryToZip reads the
\* workspace, then writeZip opens latest.zip with flag 'w' and begins to write
StepArchive ==
  /\ proc = "up" /\ pc = "archive"
  /\ buildSteps' = progressCallback(buildSteps, "archiving")
  /\ \/ /\ latestZip' = Partial
        /\ pc' = "archiving"
        /\ UNCHANGED err
     \/ /\ Throw(IOError)
        /\ UNCHANGED latestZip
  /\ UNCHANGED <<call, proc, isBuildInProgress, buildProgress, updateInfo, req, dest,
                 downloadedBytes, modpackTemp, currentTxt, undeleted, orphan>>

\* writeZip wrote the whole archive, or a write failed on the way
StepArchiveWrite ==
  /\ proc = "up" /\ pc = "archiving"
  /\ \/ /\ latestZip' = updateInfo.latestVersion
        /\ pc' = "save"
        /\ UNCHANGED err
     \/ /\ Throw(IOError)
        /\ UNCHANGED latestZip
  /\ UNCHANGED <<call, proc, record, updateInfo, req, dest, downloadedBytes, modpackTemp,
                 currentTxt, undeleted, orphan>>

\* a save step that leaves current.txt as it is
saveCurrentVersionSkipped(version) == UNCHANGED currentTxt
\* saveCurrentVersion: fs.writeFileSync(current.txt, version)
saveCurrentVersion(version) == currentTxt' = version

\* step 7; a failed writeFileSync leaves the file as it was or truncated
StepSave ==
  /\ proc = "up" /\ pc = "save"
  /\ \/ /\ saveCurrentVersion(updateInfo.latestVersion)
        /\ pc' = "cleanup"
        /\ UNCHANGED err
     \/ /\ Throw(IOError)
        /\ currentTxt' \in {currentTxt, 0}
  /\ UNCHANGED <<call, proc, record, updateInfo, req, dest, downloadedBytes, modpackTemp,
                 latestZip, undeleted, orphan>>

\* step 8: deleteDirectory(tempDir); buildServer returns and performBuild
\* marks stage 9 in-progress
StepCleanup ==
  /\ proc = "up" /\ pc = "cleanup"
  /\ \/ /\ buildSteps' = updateBuildStep(buildSteps, 9, "in-progress", "")
        /\ pc' = "finalize"
        /\ UNCHANGED err
     \/ /\ Throw(IOError)
        /\ UNCHANGED buildSteps
  /\ UNCHANGED <<call, proc, isBuildInProgress, buildProgress, updateInfo, req, dest,
                 downloadedBytes, disk>>

\* step 9 of performBuild
Finalize ==
  /\ proc = "up" /\ pc = "finalize"
  /\ buildProgress' = "Build completed!"
  /\ buildSteps' = updateBuildStep(buildSteps, 9, "completed", "")
  /\ pc' = "finally"
  /\ UNCHANGED <<call, proc, isBuildInProgress, updateInfo, err, req, dest,
                 downloadedBytes, disk>>

\* ------------------------------------------ performBuild: catch and finally
FailureSummary(message) == "Build failed: " \o message

\* a catch block that puts every stage back to pending
MarkFailedResetting(steps, message) == resetBuildSteps(steps)
\* the catch block: the message, then the in-progress stage, if any, is failed
MarkFailed(steps, message) ==
  IF currentStep(steps) # 0
    THEN updateBuildStep(steps, currentStep(steps), "failed", message)
    ELSE steps

Catch ==
  /\ proc = "up" /\ pc = "catch"
  /\ buildProgress' = FailureSummary(err)
  /\ buildSteps' = MarkFailed(buildSteps, err)
  /\ pc' = "finally"
  /\ UNCHANGED <<call, proc, isBuildInProgress, updateInfo, err, req, dest,
                 downloadedBytes, disk>>

\* the finally block, first half: if (fs.existsSync(modpackPath)) unlinkSync,
\* whose failure is caught and logged
Finally ==
  /\ proc = "up" /\ pc = "finally"
  /\ IF modpackTemp # NoFile
       THEN unlinkSync
       ELSE UNCHANGED <<modpackTemp, undeleted, orphan>>
  /\ pc' = "release"
  /\ UNCHANGED <<call, proc, record, updateInfo, err, req, dest, downloadedBytes, latestZip,
                 currentTxt>>

\* the finally block, second half: isBuildInProgress = false.  The run is
\* over; a write stream whose file is not opened yet stays pending
Release ==
  /\ proc = "up" /\ pc = "release"
  /\ isBuildInProgress' = FALSE
  /\ pc' = IF err # "" THEN "dotcatch" ELSE "idle"
  /\ dest' = IF dest = "opening" THEN "stale" ELSE "none"
  /\ downloadedBytes' = 0
  /\ updateInfo' = NoInfo
  /\ UNCHANGED <<call, proc, buildProgress, buildSteps, err, req, disk>>

\* the handler of performBuild(updateInfo).catch in GET /building
DotCatch ==
  /\ proc = "up" /\ pc = "dotcatch"
  /\ isBuildInProgress' = FALSE
  /\ buildProgress' = FailureSummary(err)
  /\ err' = ""
  /\ pc' = "idle"
  /\ UNCHANGED <<call, proc, buildSteps, updateInfo, req, dest, downloadedBytes,
                 disk>>

\* ------------------------------------------------------------------ Next
\* the route handlers, for the requests of R
Handlers(R) ==
  \/ \E r \in R : VersionBegin(r)
  \/ \E r \in R : VersionRespond(r)
  \/ \E r \in R : DownloadBegin(r)
  \/ \E r \in R : DownloadProbeFailed(r)
  \/ \E r \in R, info \in ProbeResults : DownloadProbed(r, info)
  \/ \E r \in R : BuildingBegin(r)
  \/ \E r \in R : BuildingProbeFailed(r)
  \/ \E r \in R, info \in ProbeResults : BuildingUpToDate(r, info)
  \/ \E r \in R, info \in ProbeResults : BuildingJoin(r, info)
  \/ \E r \in R, info \in ProbeResults : BuildingAccept(r, info)

\* the steps of an accepted run: each network or file operation it waits for
\* completes or fails
RunStep ==
  \/ PerformBuildStart
  \/ LinkResolved
  \/ LinkFailed
  \/ Connected
  \/ Redirected
  \/ ConnectFailed
  \/ StreamData
  \/ StreamError
  \/ StreamEnd
  \/ MD5Done
  \/ DestOpen
  \/ DestWrite
  \/ TimerFired
  \/ StepClean
  \/ StepTemplate
  \/ StepExtract
  \/ StepMods
  \/ StepScripts
  \/ StepArchive
  \/ StepArchiveWrite
  \/ StepSave
  \/ StepCleanup
  \/ Finalize
  \/ Catch
  \/ Finally
  \/ Release
  \/ DotCatch

Next ==
  \/ Listen
  \/ Crash
  \/ Restart
  \/ Handlers(Requests)
  \/ RunStep
  \/ DestError

Spec == Init /\ [][Next]_vars

\* The program left to itself: nothing kills the process from outside, the
\* event loop keeps running what is runnable, every operation a run waits for
\* completes or fails, and a process that died is started again.
FairNext ==
  \/ Listen
  \/ Restart
  \/ Handlers(Requests)
  \/ RunStep
  \/ DestError

FairSpec ==
  /\ Init /\ [][FairNext]_vars
  /\ WF_vars(Listen) /\ WF_vars(Restart) /\ WF_vars(RunStep)

\* ------------------------------------------ a volume with an earlier build
\* the version token of a modpack the catalog published before the ones it
\* lists now
OldVersion == NumVersions + 1

\* the state after the modules are evaluated on a storage volume on which an
\* earlier process built OldVersion: latest.zip is that build's archive and
\* current.txt holds its token
UpgradeInit ==
  /\ proc = "loaded"
  /\ isBuildInProgress = FALSE
  /\ buildProgress = ""
  /\ buildSteps = InitialSteps
  /\ pc = "idle"
  /\ updateInfo = NoInfo
  /\ err = ""
  /\ req = [r \in Requests |-> NoReq]
  /\ modpackTemp = NoFile
  /\ dest = "none"
  /\ downloadedBytes = 0
  /\ latestZip = OldVersion
  /\ currentTxt = OldVersion
  /\ undeleted = FALSE
  /\ orphan = FALSE
  /\ input = NoCall
  /\ output = NoCall

UpgradeSpec == UpgradeInit /\ [][Next]_vars

\* ------------------------------------------------------------ type check
TypeOK ==
  /\ proc \in {"loaded", "up", "killed", "uncaught"}
  /\ isBuildInProgress \in BOOLEAN
  /\ buildSteps \in [StepIds -> [status : {"pending", "in-progress", "completed", "failed"},
                                 detail : STRING]]
  /\ pc \in {"idle"} \cup JsHeld \cup Suspended
  /\ updateInfo \in ProbeResults \cup {NoInfo}
  /\ modpackTemp \in NoFile..MaxBody
  /\ dest \in {"none", "opening", "open", "stale"}
  /\ downloadedBytes \in 0..MaxBody
  /\ latestZip \in {NoFile, Partial, OldVersion} \cup Versions
  /\ currentTxt \in 0..OldVersion
  /\ undeleted \in BOOLEAN
  /\ orphan \in BOOLEAN

\* ============================================ verifyDownload on its own
\* the largest expected size tried
MaxSize == 2
\* the length of a hex digest
HexLen == 2

\* the server at rest, whatever modpack-temp.zip holds
AtRest ==
  /\ proc = "loaded"
  /\ isBuildInProgress = FALSE
  /\ buildProgress = ""
  /\ buildSteps = InitialSteps
  /\ pc = "idle"
  /\ updateInfo = NoInfo
  /\ err = ""
  /\ req = [r \in Requests |-> NoReq]
  /\ dest = "none"
  /\ latestZip = NoFile
  /\ currentTxt = 0
  /\ undeleted = FALSE
  /\ orphan = FALSE

\* String.prototype.toLowerCase on the characters of a digest
ToLower(c) == IF c = "A" THEN "a" ELSE IF c = "B" THEN "b" ELSE c
toLowerCase(str) == [i \in DOMAIN str |-> ToLower(str[i])]

\* hash.digest('hex'): two lowercase hexadecimal digits per byte
HexDigits == <<"0", "1", "2", "3", "4", "5", "6", "7", "8", "9",
               "a", "b", "c", "d", "e", "f">>
digestHex(d) == <<HexDigits[(d \div 16) + 1], HexDigits[(d % 16) + 1]>>

\* calculateMD5 of a file that exists
calculateMD5(file) == digestHex(MD5Of(file))

\* options.expectedSize: undefined, or the size the catalog gave
NoSize == -1
\* options.expectedMD5: undefined (or ''), or a digest in any letter case
NoHash == <<>>
HashStrings == [1..HexLen -> {"0", "a", "A", "b", "B"}]
VerifyOptions == [expectedSize : {NoSize} \cup 0..MaxSize,
                  expectedMD5 : {NoHash} \cup HashStrings]

\* a verifier that computes and compares the hash in every case
verifyDownloadAlways(file, bytes, options) ==
  IF file = NoFile THEN "ENOENT"
  ELSE IF calculateMD5(file) # options.expectedMD5 THEN "MD5 hash mismatch"
  ELSE "ok"
\* verifyDownload(filePath, downloadedBytes, options): what it throws, or "ok"
verifyDownload(file, bytes, options) ==
  IF options.expectedSize \notin {NoSize, 0} /\ bytes # options.expectedSize
    THEN "File size mismatch"
  ELSE IF options.expectedMD5 # NoHash
    THEN IF file = NoFile THEN "ENOENT"
         ELSE IF calculateMD5(file) # options.expectedMD5 THEN "MD5 hash mismatch"
         ELSE "ok"
  ELSE "ok"

VerifyInit ==
  /\ AtRest
  /\ modpackTemp \in NoFile..MaxBody
  /\ downloadedBytes \in 0..MaxBody
  /\ input \in [fn : {"verifyDownload"}, options : VerifyOptions]
  /\ output = NoCall

\* await verifyDownload(destPath, downloadedBytes, options)
VerifyCall ==
  /\ input.fn = "verifyDownload" /\ output.fn = "none"
  /\ output' = [fn |-> "verifyDownload",
                result |-> verifyDownload(modpackTemp, downloadedBytes, input.options)]
  /\ UNCHANGED <<input, proc, record, pc, updateInfo, err, req, dest,
                 downloadedBytes, disk>>

VerifySpec == VerifyInit /\ [][VerifyCall]_vars

\* the call of verifyDownload has returned or thrown
Verified == output.fn = "verifyDownload"

\* ================================ extractVersionFromFilename on its own
\* A filename is a sequence of pieces.  Every piece stands for the characters
\* it shows: a marker word, one separator character, the letter v, a run of
\* digits and dots, the extension, or other text.
MaxName == 5
Latin == {"IIS", "iis"}
\* the Cyrillic marker word (U+0418 U+0418 U+0421) in capitals and in small letters
Cyrillic == {"CYR-IIS", "cyr-iis"}
Hyphen == "-"
Space == " "
DigitRuns == {"1.09.3", "1.2"}
Zip == ".zip"
Pieces == Latin \cup Cyrillic \cup {Hyphen, Space, "v", Zip, "x"} \cup DigitRuns
Filenames == UNION {[1..n -> Pieces] : n \in 0..MaxName}

\* the pieces of str from position a to position b
Slice(str, a, b) == [i \in 1..(b - a + 1) |-> str[a + i - 1]]

\* filename.match(/<marker><seps>+(v[\d.]+)\.zip/i) with the marker at
\* position i: the positions <<j, k>> such that the separators end at j, the
\* captured group runs from j + 1 to k and the extension is at k + 1
MatchesAt(str, i, markers, seps) ==
  {jk \in (1..Len(str)) \X (1..Len(str)) :
     /\ str[i] \in markers
     /\ i < jk[1] /\ jk[1] + 1 < jk[2] /\ jk[2] < Len(str)
     /\ \A m \in (i + 1)..jk[1] : str[m] \in seps
     /\ str[jk[1] + 1] = "v"
     /\ \A m \in (jk[1] + 2)..jk[2] : str[m] \in DigitRuns
     /\ str[jk[2] + 1] = Zip}

\* the positions at which the pattern matches
MatchStarts(str, markers, seps) ==
  {i \in 1..Len(str) : MatchesAt(str, i, markers, seps) # {}}

\* match[1] of the leftmost match
Captured(str, markers, seps) ==
  LET i == CHOOSE a \in MatchStarts(str, markers, seps) :
             \A b \in MatchStarts(str, markers, seps) : a <= b
      jk == CHOOSE m \in MatchesAt(str, i, markers, seps) : TRUE
  IN  Slice(str, jk[1] + 1, jk[2])

\* filename.replace(/\.zip$/i, '')
stripZip(str) ==
  IF Len(str) > 0 /\ str[Len(str)] = Zip THEN Slice(str, 1, Len(str) - 1) ELSE str

\* an extraction that accepts a hyphen after the Cyrillic marker as well
extractVersionEitherSeparator(filename) ==
  IF MatchStarts(filename, Latin, {Hyphen, Space}) # {}
    THEN Captured(filename, Latin, {Hyphen, Space})
  ELSE IF MatchStarts(filename, Cyrillic, {Hyphen, Space}) # {}
    THEN Captured(filename, Cyrillic, {Hyphen, Space})
  ELSE stripZip(filename)
\* extractVersionFromFilename: /IIS[-\s]+(v[\d.]+)\.zip/i, then
\* /<Cyrillic marker>\s+(v[\d.]+)\.zip/i, then the fallback
extractVersionFromFilename(filename) ==
  IF MatchStarts(filename, Latin, {Hyphen, Space}) # {}
    THEN Captured(filename, Latin, {Hyphen, Space})
  ELSE IF MatchStarts(filename, Cyrillic, {Space}) # {}
    THEN Captured(filename, Cyrillic, {Space})
  ELSE stripZip(filename)

ExtractInit ==
  /\ AtRest
  /\ modpackTemp = NoFile
  /\ downloadedBytes = 0
  /\ input \in [fn : {"extractVersionFromFilename"}, filename : Filenames]
  /\ output = NoCall

ExtractCall ==
  /\ input.fn = "extractVersionFromFilename" /\ output.fn = "none"
  /\ output' = [fn |-> "extractVersionFromFilename",
                result |-> extractVersionFromFilename(input.filename)]
  /\ UNCHANGED <<input, proc, record, pc, updateInfo, err, req, dest,
                 downloadedBytes, disk>>

ExtractSpec == ExtractInit /\ [][ExtractCall]_vars

\* the call of extractVersionFromFilename has returned
Extracted == output.fn = "extractVersionFromFilename"

\* ==================== getLatestModpack and checkForUpdate on their own
\* entries in a catalog listing, and the latest modification time
MaxItems == 3
MaxTime == 2

\* item.name.toLowerCase(), piece by piece
lowerPiece(c) == IF c = "IIS" THEN "iis" ELSE IF c = "CYR-IIS" THEN "cyr-iis" ELSE c
nameToLowerCase(str) == [i \in DOMAIN str |-> lowerPiece(str[i])]
includes(str, word) == \E i \in DOMAIN str : str[i] = word
endsWith(str, word) == Len(str) > 0 /\ str[Len(str)] = word

\* the names a listing can hold: two versioned modpacks, another zip file,
\* and a marked file that is no zip
CatalogNames == {<<"IIS", Hyphen, "v", "1.09.3", Zip>>,
                 <<"CYR-IIS", Space, "v", "1.2", Zip>>,
                 <<"x", Zip>>,
                 <<"iis", "x">>}
ItemShapes == [type : {"file", "dir"}, name : CatalogNames, modified : 1..MaxTime]
\* response._embedded.items is missing
NoItems == <<[type |-> "none"]>>
Listings == UNION {[1..n -> ItemShapes] : n \in 0..MaxItems}
\* the item at position i of a listing; its path, md5 and size are its own
Item(listing, i) ==
  [type |-> listing[i].type, name |-> listing[i].name,
   modified |-> listing[i].modified, path |-> i, md5 |-> i, size |-> i]
Items(listing) == [i \in DOMAIN listing |-> Item(listing, i)]

\* the filter of getLatestModpack
isModpackZip(item) ==
  /\ item.type = "file"
  /\ \/ includes(nameToLowerCase(item.name), "cyr-iis")
     \/ includes(nameToLowerCase(item.name), "iis")
  /\ endsWith(nameToLowerCase(item.name), Zip)

\* a comparator that puts the oldest first
compareOldestFirst(a, b) == a.modified - b.modified
\* (a, b) => new Date(b.modified) - new Date(a.modified)
compareModified(a, b) == b.modified - a.modified

\* Array.prototype.sort, which is stable: x goes behind every element that
\* does not have to come after it
insertSorted(sorted, x) ==
  LET behind == {i \in 1..Len(sorted) : compareModified(sorted[i], x) > 0}
      at == IF behind = {} THEN Len(sorted) + 1
            ELSE CHOOSE i \in behind : \A j \in behind : i <= j
  IN  [i \in 1..(Len(sorted) + 1) |->
         IF i < at THEN sorted[i] ELSE IF i = at THEN x ELSE sorted[i - 1]]
RECURSIVE sort(_)
sort(arr) ==
  IF Len(arr) = 0 THEN <<>>
  ELSE insertSorted(sort(SubSeq(arr, 1, Len(arr) - 1)), arr[Len(arr)])

NoEntry == [path |-> 0, name |-> <<>>, version |-> <<>>, md5 |-> 0, size |-> 0]
\* getLatestModpack on the listing the API returned
getLatestModpack(listing) ==
  IF listing = NoItems
    THEN [error |-> "No files found in Yandex.Disk folder", value |-> NoEntry]
  ELSE LET zipFiles == SelectSeq(Items(listing), isModpackZip)
       IN  IF Len(zipFiles) = 0
             THEN [error |-> "No modpack files found in Yandex.Disk folder",
                   value |-> NoEntry]
             ELSE LET latestFile == sort(zipFiles)[1]
                  IN  [error |-> "",
                       value |-> [path |-> latestFile.path,
                                  name |-> latestFile.name,
                                  version |-> extractVersionFromFilename(latestFile.name),
                                  md5 |-> latestFile.md5,
                                  size |-> latestFile.size]]

NoProbe == [hasUpdate |-> FALSE, latestVersion |-> <<>>, filePath |-> 0,
            fileName |-> <<>>, md5 |-> 0, size |-> 0]
\* a probe that reports an update whenever the catalog has a modpack
checkForUpdateAlways(currentVersion, listing) ==
  LET latestModpack == getLatestModpack(listing)
  IN  [error |-> latestModpack.error,
       value |-> [NoProbe EXCEPT !.hasUpdate = (latestModpack.error = "")]]
\* checkForUpdate(currentVersion) on the listing the API returned
checkForUpdate(currentVersion, listing) ==
  LET latestModpack == getLatestModpack(listing)
  IN  IF latestModpack.error # ""
        THEN [error |-> latestModpack.error, value |-> NoProbe]
        ELSE [error |-> "",
              value |-> [hasUpdate |-> currentVersion # latestModpack.value.version,
                         latestVersion |-> latestModpack.value.version,
                         filePath |-> latestModpack.value.path,
                         fileName |-> latestModpack.value.name,
                         md5 |-> latestModpack.value.md5,
                         size |-> latestModpack.value.size]]

\* the versions a caller can hold: 'none', extracted tokens, a fallback name
CurrentVersions == {<<"none">>, <<"v", "1.09.3">>, <<"v", "1.2">>, <<"x">>}

CatalogInit ==
  /\ AtRest
  /\ modpackTemp = NoFile
  /\ downloadedBytes = 0
  /\ input \in [fn : {"getLatestModpack"}, listing : Listings \cup {NoItems},
                currentVersion : {<<"none">>}]
           \cup [fn : {"checkForUpdate"}, listing : Listings \cup {NoItems},
                 currentVersion : CurrentVersions]
  /\ output = NoCall

LatestCall ==
  /\ input.fn = "getLatestModpack" /\ output.fn = "none"
  /\ output' = [fn |-> "getLatestModpack", result |-> getLatestModpack(input.listing)]
  /\ UNCHANGED <<input, proc, record, pc, updateInfo, err, req, dest,
                 downloadedBytes, disk>>

ProbeCall ==
  /\ input.fn = "checkForUpdate" /\ output.fn = "none"
  /\ output' = [fn |-> "checkForUpdate",
                result |-> checkForUpdate(input.currentVersion, input.listing)]
  /\ UNCHANGED <<input, proc, record, pc, updateInfo, err, req, dest,
                 downloadedBytes, disk>>

CatalogSpec == CatalogInit /\ [][LatestCall \/ ProbeCall]_vars

\* ================================================ buildServer on its own
\* how many times the transform is run on the same inputs
MaxRuns == 3

\* CLIENT_SIDE_MODS (two of the four), as paths under the workspace
ClientSideMods == {"mods/OptiFine_1.7.10_HD_U_E7.jar",
                   "mods/MapWriter-2.1.21-II-Edition.jar"}
\* what the template and the modpack can hold: the client-side mods, another
\* mod, a file named like a client-side mod outside mods/, and a start.sh of
\* their own
PackPaths ==
  ClientSideMods \cup {"mods/keep.jar", "OptiFine_1.7.10_HD_U_E7.jar", "start.sh"}
\* what an earlier run can have left in storage/temp
StalePaths == {"mods/OptiFine_1.7.10_HD_U_E7.jar", "stale.txt"}
ScriptPaths == {"start.sh", "start.bat"}
TreePaths == PackPaths \cup StalePaths \cup ScriptPaths

\* a directory tree or an archive: path -> where the file's content is from
\* ("template", "modpack", "stale", "script"), or "absent"
Absent == "absent"
EmptyTree == [p \in TreePaths |-> Absent]
TreeOf(paths, origin) == [p \in TreePaths |-> IF p \in paths THEN origin ELSE Absent]
Present(tree) == {p \in TreePaths : tree[p] # Absent}

\* a deleteDirectory that leaves the directory as it is
deleteDirectoryKeeping(tree) == tree
\* deleteDirectory(tempDir); fs.mkdirSync(tempDir)
deleteDirectory(tree) == EmptyTree
\* a copy that keeps the files the destination already has
copyKeeping(src, tree) == [p \in TreePaths |-> IF tree[p] # Absent THEN tree[p] ELSE src[p]]
\* copyDirectory(src, dest) and extractAllTo(dest, true): files of src
\* replace those of dest at the same path
copyOver(src, tree) == [p \in TreePaths |-> IF src[p] # Absent THEN src[p] ELSE tree[p]]
\* a removal count that takes every listed mod as removed
removedCountAll(tree) == Cardinality(ClientSideMods)
\* step 4: the listed mods that exist under mods/ are unlinked and counted
removedCount(tree) == Cardinality({m \in ClientSideMods : tree[m] # Absent})
removeClientSideMods(tree) ==
  [p \in TreePaths |-> IF p \in ClientSideMods THEN Absent ELSE tree[p]]
\* createStartScripts
createStartScripts(tree) ==
  [p \in TreePaths |-> IF p \in ScriptPaths THEN "script" ELSE tree[p]]
\* addDirectoryToZip(zip, tempDir, 'minecraft-server') into a new AdmZip:
\* every file of the tree, under the prefix
addDirectoryToZip(tree) == [prefix |-> "minecraft-server", files |-> tree]
NoZip == [prefix |-> "", files |-> EmptyTree]

BuildInputs ==
  [fn : {"buildServer"},
   template : {TreeOf(ps, "template") : ps \in SUBSET PackPaths},
   modpack : {TreeOf(ps, "modpack") : ps \in SUBSET PackPaths}]

TransformInit ==
  /\ AtRest
  /\ modpackTemp = NoFile
  /\ downloadedBytes = 0
  /\ input \in BuildInputs
  /\ output \in [fn : {"buildServer"}, step : {"idle"}, runs : {0}, completed : {0},
                 tempDir : {TreeOf(ps, "stale") : ps \in SUBSET StalePaths},
                 outputZip : {NoZip}, firstZip : {NoZip}, removed : {0}]

\* buildServer is at `step`
TransformAt(step) == input.fn = "buildServer" /\ output.step = step
TransformFrame ==
  UNCHANGED <<input, proc, record, pc, updateInfo, err, req, dest,
              downloadedBytes, disk>>

\* buildServer(modpackPath, version) is called
TStart ==
  /\ input.fn = "buildServer" /\ output.step \in {"idle", "done", "failed"}
  /\ output.runs < MaxRuns
  /\ output' = [output EXCEPT !.step = "clean", !.runs = @ + 1, !.removed = 0]
  /\ TransformFrame

TClean ==
  /\ TransformAt("clean")
  /\ output' = [output EXCEPT !.step = "template",
                              !.tempDir = deleteDirectory(output.tempDir)]
  /\ TransformFrame

TTemplate ==
  /\ TransformAt("template")
  /\ output' = [output EXCEPT !.step = "extract",
                              !.tempDir = copyOver(input.template, output.tempDir)]
  /\ TransformFrame

TExtract ==
  /\ TransformAt("extract")
  /\ output' = [output EXCEPT !.step = "mods",
                              !.tempDir = copyOver(input.modpack, output.tempDir)]
  /\ TransformFrame

TMods ==
  /\ TransformAt("mods")
  /\ output' = [output EXCEPT !.step = "scripts",
                              !.removed = removedCount(output.tempDir),
                              !.tempDir = removeClientSideMods(output.tempDir)]
  /\ TransformFrame

TScripts ==
  /\ TransformAt("scripts")
  /\ output' = [output EXCEPT !.step = "archive",
                              !.tempDir = createStartScripts(output.tempDir)]
  /\ TransformFrame

TArchive ==
  /\ TransformAt("archive")
  /\ output' = [output EXCEPT !.step = "cleanup",
                              !.outputZip = addDirectoryToZip(output.tempDir)]
  /\ TransformFrame

\* steps 7 and 8; the run is complete
TCleanup ==
  /\ TransformAt("cleanup")
  /\ output' = [output EXCEPT !.step = "done",
                              !.completed = @ + 1,
                              !.tempDir = deleteDirectory(output.tempDir),
                              !.firstZip = IF output.firstZip = NoZip
                                             THEN output.outputZip
                                             ELSE output.firstZip]
  /\ TransformFrame

\* a file operation of the step throws: buildServer rethrows and storage/temp
\* stays as the step had it
TFail ==
  /\ input.fn = "buildServer"
  /\ output.step \in {"clean", "template", "extract", "mods", "scripts", "archive",
                      "cleanup"}
  /\ output' = [output EXCEPT !.step = "failed"]
  /\ TransformFrame

TransformNext ==
  \/ TStart
  \/ TClean
  \/ TTemplate
  \/ TExtract
  \/ TMods
  \/ TScripts
  \/ TArchive
  \/ TCleanup
  \/ TFail

TransformSpec == TransformInit /\ [][TransformNext]_vars

\* a run of buildServer has returned
Transformed == input.fn = "buildServer" /\ output.step = "done"

\* a performBuild call is executing (its promise is not settled)
RunInFlight == pc \notin {"idle", "dotcatch"}

\* ============================= the saved version read back, on its own
\* the names getLatestModpack lets through its filter
ModpackNames ==
  {f \in Filenames :
     /\ \/ includes(nameToLowerCase(f), "cyr-iis")
        \/ includes(nameToLowerCase(f), "iis")
     /\ endsWith(nameToLowerCase(f), Zip)}

\* String.prototype.trim: the white space at both ends is dropped
trim(str) ==
  LET inked == {i \in DOMAIN str : str[i] # Space}
  IN  IF inked = {} THEN <<>>
      ELSE Slice(str, CHOOSE a \in inked : \A b \in inked : a <= b,
                      CHOOSE a \in inked : \A b \in inked : a >= b)

\* null, which getCurrentVersion returns for a missing or blank file
Null == <<>>
\* getCurrentVersion on a current.txt that holds `contents`
readCurrentVersion(contents) ==
  LET version == trim(contents)
  IN  IF version = <<>> THEN Null ELSE version
\* currentVersion || 'none'
orNone(currentVersion) == IF currentVersion = Null THEN <<"none">> ELSE currentVersion

\* a run for the newest file `name` of the catalog has completed, and then a
\* request handler probes the unchanged catalog
RoundTripInit ==
  /\ AtRest
  /\ modpackTemp = NoFile
  /\ downloadedBytes = 0
  /\ input \in [fn : {"saveCurrentVersion"}, name : ModpackNames]
  /\ output = [fn |-> "saveCurrentVersion", step |-> "building", file |-> <<>>,
               currentVersion |-> Null, hasUpdate |-> FALSE]

\* step 7 of buildServer: saveCurrentVersion(updateInfo.latestVersion), the
\* version getLatestModpack extracted from the name
RoundTripSave ==
  /\ input.fn = "saveCurrentVersion" /\ output.step = "building"
  /\ output' = [output EXCEPT !.step = "saved",
                              !.file = extractVersionFromFilename(input.name)]
  /\ UNCHANGED <<input, proc, record, pc, updateInfo, err, req, dest,
                 downloadedBytes, disk>>

\* the next request: getCurrentVersion(), then checkForUpdate(currentVersion
\* || 'none') on the same catalog
RoundTripProbe ==
  /\ input.fn = "saveCurrentVersion" /\ output.step = "saved"
  /\ LET currentVersion == readCurrentVersion(output.file)
     IN  output' = [output EXCEPT
                      !.step = "probed",
                      !.currentVersion = currentVersion,
                      !.hasUpdate = (orNone(currentVersion)
                                       # extractVersionFromFilename(input.name))]
  /\ UNCHANGED <<input, proc, record, pc, updateInfo, err, req, dest,
                 downloadedBytes, disk>>

RoundTripSpec == RoundTripInit /\ [][RoundTripSave \/ RoundTripProbe]_vars

\* ================================= the redirects between the two routes
\* the most redirects a client follows
MaxHops == 5

\* what a handler sees: the flag, fs.existsSync(latest.zip), the token in
\* current.txt (0 if none) and the outcome of checkForUpdate: it throws, or
\* it reports the catalog's newest version
ProbeFailed == -1
Situations ==
  [running : BOOLEAN, hasServer : BOOLEAN, currentVersion : {0} \cup Versions \cup {OldVersion},
   latest : {ProbeFailed} \cup Versions]

\* what GET /building answers in situation s
buildingResponse(s) ==
  IF s.latest = ProbeFailed
    THEN IF s.hasServer THEN "redirect:/download" ELSE "error"
  ELSE IF s.currentVersion = s.latest /\ s.hasServer THEN "redirect:/download"
  ELSE "progress"

\* what GET /download answers in situation s
downloadResponse(s) ==
  IF s.running THEN "redirect:/building"
  ELSE IF s.latest = ProbeFailed
    THEN IF s.hasServer THEN "file" ELSE "redirect:/building"
  ELSE IF ~s.hasServer \/ s.currentVersion # s.latest THEN "redirect:/building"
  ELSE "file"

response(route, s) ==
  IF route = "/building" THEN buildingResponse(s) ELSE downloadResponse(s)
Redirects == {"redirect:/building", "redirect:/download"}
location(kind) == IF kind = "redirect:/building" THEN "/building" ELSE "/download"

\* a client requests a route in a situation that stays as it is
RedirectInit ==
  /\ AtRest
  /\ modpackTemp = NoFile
  /\ downloadedBytes = 0
  /\ input \in [fn : {"get"}, route : {"/building", "/download"}, situation : Situations]
  /\ output = [fn |-> "get", route |-> input.route, hops |-> 0, kind |-> "none",
               visited |-> {}, revisited |-> FALSE]

\* the server answers the request
Answer ==
  /\ input.fn = "get" /\ output.kind = "none"
  /\ output' = [output EXCEPT !.kind = response(output.route, input.situation),
                              !.visited = @ \cup {output.route},
                              !.revisited = output.route \in output.visited]
  /\ UNCHANGED <<input, proc, record, pc, updateInfo, err, req, dest,
                 downloadedBytes, disk>>

\* the client follows the redirect it was sent
Follow ==
  /\ input.fn = "get" /\ output.kind \in Redirects
  /\ output.hops < MaxHops
  /\ output' = [output EXCEPT !.route = location(output.kind), !.hops = @ + 1,
                              !.kind = "none"]
  /\ UNCHANGED <<input, proc, record, pc, updateInfo, err, req, dest,
                 downloadedBytes, disk>>

RedirectSpec == RedirectInit /\ [][Answer \/ Follow]_vars

\* ================================================================ claims

\* C1: at most one build pipeline executes at any time.  A performBuild call
\* starts only in a step taken while no performBuild is executing and the flag
\* is false, and that step sets the flag; as long as a performBuild executes
\* the flag stays true, so every other trigger that tests the flag in the
\* meantime finds it true and starts nothing.
C1_MutualExclusion ==
  /\ [][(pc # "start" /\ pc' = "start") => (~RunInFlight /\ ~isBuildInProgress /\ isBuildInProgress')]_vars
  /\ [](RunInFlight => isBuildInProgress)

\* C1 witness: two /building triggers tested the flag during one run; both
\* hold the progress page and a single run is downloading
C1_TwoTriggers ==
  /\ pc = "link" /\ isBuildInProgress
  /\ \A r \in {1, 2} : req[r].route = "building" /\ req[r].kind = "progress"

\* C2 (as stated): while no run is in flight and running is false, the
\* temporary download file does not exist (leaving aside a file whose unlink
\* was attempted and failed, and a file inherited from a previous lifetime).
C2_NoTempFileWhileIdle ==
  (proc = "up" /\ ~RunInFlight /\ ~isBuildInProgress /\ ~undeleted /\ ~orphan)
    => modpackTemp = NoFile

\* C3 (as stated): every accepted run eventually reaches the end of its
\* finally block, where running is set to false.
C3_EveryRunEnds == (pc = "start") ~> (pc = "release")

\* C4 (as stated): when a run has ended with a failure, running is false,
\* statusMessage is the failure summary and some stage is failed with the
\* failure message as its detail.
C4_FailedStageVisible ==
  pc = "dotcatch" =>
    /\ ~isBuildInProgress
    /\ buildProgress = FailureSummary(err)
    /\ \E k \in StepIds : buildSteps[k] = [status |-> "failed", detail |-> err]

\* C5: whenever a stage k is in-progress, every stage before k is completed
\* or failed and every stage after k is pending (so at most one stage is
\* in-progress).
C5_OneInProgress ==
  \A k \in StepIds :
    buildSteps[k].status = "in-progress" =>
      /\ \A j \in StepIds : j < k => buildSteps[j].status \in {"completed", "failed"}
      /\ \A j \in StepIds : j > k => buildSteps[j].status = "pending"

\* C5 witness: the transform is at its extraction with stage 6 in-progress
C5_StageSixInProgress == pc = "extract" /\ buildSteps[6].status = "in-progress"

\* the moves a stage may make within one run
StageMove(k, a, b) ==
  \/ a = b
  \/ a = "pending" /\ b = "in-progress"
  \/ a = "in-progress" /\ b \in {"completed", "failed"}
  \/ k = 1 /\ a = "pending" /\ b = "completed"

\* C6: in every step of a running process other than the acceptance of a new
\* run, each stage keeps its status or moves pending -> in-progress,
\* in-progress -> completed or failed, or (stage 1) pending -> completed.
C6_Monotonic ==
  [][(proc = "up" /\ proc' = "up" /\ ~(pc # "start" /\ pc' = "start"))
       => \A k \in StepIds : StageMove(k, buildSteps[k].status, buildSteps'[k].status)]_vars

\* C6 witness: a run failed in its download, stage 1 stays completed and
\* stage 2 failed after the run
C6_FailedStageKept ==
  /\ pc = "idle" /\ ~isBuildInProgress
  /\ buildSteps[1].status = "completed" /\ buildSteps[2].status = "failed"

\* C7 (as stated): no failure of a run leaves the orchestrator as an uncaught
\* exception.
C7_NothingEscapes == proc # "uncaught"

\* C8 (as stated): a partially written latest.zip is never served as the
\* built server.
C8_PartialNeverServed ==
  \A r \in Requests :
    ~(req[r].state = "sent" /\ req[r].kind = "file" /\ req[r].body = Partial)

C10_FailedProbeServesOrErrors ==
  \A r \in Requests :
    (req[r].state = "sent" /\ req[r].probe = "failed") =>
      IF req[r].hasServer
        THEN req[r].kind \in {"file", "redirect:/download"}
        ELSE req[r].kind = "error"

\* the answer of a handler whose probe failed
FallbackKind(route, hasServer) ==
  IF route = "download"
    THEN IF hasServer THEN "file" ELSE "redirect:/building"
    ELSE IF hasServer THEN "redirect:/download" ELSE "error"

\* C10 (amended): a handler whose probe fails starts no run and leaves
\* running, the stages and statusMessage unchanged; /download then serves
\* latest.zip if it saw one and otherwise redirects to /building, /building
\* redirects to /download if it saw one and otherwise answers with the error
\* page.
C10_FailedProbeFallback ==
  [][\A r \in Requests :
       (req[r].state = "probing" /\ req'[r].state = "sent" /\ req'[r].probe = "failed")
         => /\ UNCHANGED <<record, pc, updateInfo>>
            /\ req'[r].kind = FallbackKind(req[r].route, req[r].hasServer)
            /\ req'[r].kind = "file" => req'[r].body = latestZip]_vars

\* C10 witness: /download answered a failed probe with the built archive
\* while /building answered one with the error page
C10_BothFallbacks ==
  \E r, q \in Requests :
    /\ req[r].state = "sent" /\ req[r].probe = "failed" /\ req[r].route = "download"
    /\ req[r].kind = "file" /\ req[r].body \in Versions
    /\ req[q].state = "sent" /\ req[q].probe = "failed" /\ req[q].route = "building"
    /\ req[q].kind = "error"

\* C11 (as stated): for every supplied expected size (0 included) and every
\* byte count, verification throws the size mismatch exactly when the two
\* differ.
C11_SizeCheckedWhenSupplied ==
  Verified =>
    (output.result = "File size mismatch"
       <=> (input.options.expectedSize # NoSize
            /\ downloadedBytes # input.options.expectedSize))

\* C12 (as stated): with a hash supplied, the size check passed and the file
\* readable, verification throws the hash mismatch exactly when the computed
\* and the expected digest differ after folding the letter case.
C12_HashComparedCaseInsensitively ==
  (/\ Verified
   /\ input.options.expectedMD5 # NoHash
   /\ output.result # "File size mismatch"
   /\ modpackTemp # NoFile)
    => (output.result = "MD5 hash mismatch"
          <=> toLowerCase(calculateMD5(modpackTemp)) # toLowerCase(input.options.expectedMD5))

\* C13: with neither an expected size nor an expected hash, verification
\* succeeds for every file and byte count; and no call of the verifier
\* changes the file, the byte count, the build record or anything else.
C13_NoExpectationsSucceeds ==
  /\ [](( /\ Verified
          /\ input.options.expectedSize = NoSize
          /\ input.options.expectedMD5 = NoHash) => output.result = "ok")
  /\ [][UNCHANGED <<input, proc, record, pc, updateInfo, err, req, dest,
                    downloadedBytes, disk>>]_vars

\* C13 witness: no expectation given, no file on the disk, one byte counted,
\* and the verifier returned
C13_VerifiedNothing ==
  /\ Verified /\ output.result = "ok"
  /\ input.options.expectedSize = NoSize /\ input.options.expectedMD5 = NoHash
  /\ modpackTemp = NoFile /\ downloadedBytes = 1

\* the filename holds, somewhere, a marker word of either script, one or more
\* separators, and the token v1.09.3 right before the extension that ends it
HasVersionToken(str) ==
  \E i, j \in 1..Len(str) :
    /\ str[i] \in Latin \cup Cyrillic
    /\ i < j /\ j + 3 = Len(str)
    /\ \A m \in (i + 1)..j : str[m] \in {Hyphen, Space}
    /\ str[j + 1] = "v" /\ str[j + 2] = "1.09.3" /\ str[j + 3] = Zip

\* C16 (as stated): for a filename with a marker word, separators and a token
\* v<digits>.<digits>.<digits> before the extension the call returns that
\* token, and for every other filename the filename without its extension.
C16_TokenOrStrippedName ==
  Extracted =>
    output.result = IF HasVersionToken(input.filename)
                      THEN <<"v", "1.09.3">>
                      ELSE stripZip(input.filename)

\* the places where the filename holds the Latin marker, one or more hyphens
\* or blanks, the letter v, digits and dots, and ".zip"; or the Cyrillic marker,
\* one or more blanks, and the same
AcceptedAt(str) ==
  {i \in 1..Len(str) : MatchesAt(str, i, Latin, {Hyphen, Space}) # {}
                       \/ MatchesAt(str, i, Cyrillic, {Space}) # {}}

\* C16 (amended): the call returns for every filename; where the filename
\* holds an accepted pattern it returns the pattern's token (v and the digits
\* and dots up to ".zip", of whatever shape), and otherwise the filename
\* without a ".zip" at its end.
C16_TokenOfAcceptedPattern ==
  Extracted =>
    IF AcceptedAt(input.filename) = {}
      THEN output.result = stripZip(input.filename)
      ELSE \E i \in AcceptedAt(input.filename) :
             \E jk \in MatchesAt(input.filename, i, Latin, {Hyphen, Space})
                         \cup MatchesAt(input.filename, i, Cyrillic, {Space}) :
               /\ output.result = Slice(input.filename, jk[1] + 1, jk[2])
               /\ output.result[1] = "v"
               /\ \A m \in 2..Len(output.result) : output.result[m] \in DigitRuns

\* C16 witness: a two-component token after the Latin marker was returned
C16_ShortTokenReturned ==
  /\ Extracted
  /\ input.filename = <<"iis", Hyphen, "v", "1.2", Zip>>
  /\ output.result = <<"v", "1.2">>

\* the entries of the listing that are files whose name holds a marker word
\* in either letter case and ends with the archive extension
Matching(listing) ==
  {i \in DOMAIN listing :
     /\ listing[i].type = "file"
     /\ \E m \in DOMAIN listing[i].name : listing[i].name[m] \in Latin \cup Cyrillic
     /\ listing[i].name[Len(listing[i].name)] = Zip}

\* C14: for every listing, getLatestModpack fails with the no-modpack error
\* exactly when no entry matches the filter, and otherwise returns the path,
\* name, md5 and size of one matching entry whose modification time is the
\* greatest among the matching entries.
C14_LatestMatchingEntry ==
  (output.fn = "getLatestModpack" /\ input.listing # NoItems) =>
    IF Matching(input.listing) = {}
      THEN output.result.error = "No modpack files found in Yandex.Disk folder"
      ELSE /\ output.result.error = ""
           /\ \E i \in Matching(input.listing) :
                /\ \A j \in Matching(input.listing) :
                     input.listing[j].modified <= input.listing[i].modified
                /\ output.result.value.path = i
                /\ output.result.value.name = input.listing[i].name
                /\ output.result.value.md5 = i
                /\ output.result.value.size = i

\* C14 witness: the listing's newest entry is a directory, its oldest a
\* modpack, and the modpack in the middle was selected
C14_NewestModpackChosen ==
  /\ output.fn = "getLatestModpack"
  /\ Len(input.listing) = 3
  /\ input.listing[1].type = "file" /\ input.listing[1].modified = 1
  /\ input.listing[2].type = "file" /\ input.listing[2].modified = 2
  /\ input.listing[3].type = "dir" /\ input.listing[3].modified = 2
  /\ {1, 2} \subseteq Matching(input.listing)
  /\ output.result.error = "" /\ output.result.value.path = 2

\* C15: for every current version and listing with a modpack, the probe
\* returns the path, name, md5 and size of the entry getLatestModpack
\* selects, the version extracted from that entry's name as latestVersion,
\* and hasUpdate true exactly when that version differs from the current one.
C15_ProbeOfNewestEntry ==
  (output.fn = "checkForUpdate" /\ Matching(input.listing) # {}
     /\ input.listing # NoItems) =>
    /\ output.result.error = ""
    /\ \E i \in Matching(input.listing) :
         /\ \A j \in Matching(input.listing) :
              input.listing[j].modified <= input.listing[i].modified
         /\ output.result.value.filePath = i
         /\ output.result.value.fileName = input.listing[i].name
         /\ output.result.value.md5 = i
         /\ output.result.value.size = i
         /\ output.result.value.latestVersion
              = extractVersionFromFilename(input.listing[i].name)
         /\ output.result.value.hasUpdate
              <=> (input.currentVersion
                     # extractVersionFromFilename(input.listing[i].name))

\* C15 witness: the caller holds the version of the newest modpack of a
\* listing with an older modpack of another version; no update is reported
C15_UpToDateProbe ==
  /\ output.fn = "checkForUpdate"
  /\ input.currentVersion = <<"v", "1.2">>
  /\ Len(input.listing) = 2 /\ Matching(input.listing) = {1, 2}
  /\ input.listing[1].modified = 1 /\ input.listing[2].modified = 2
  /\ output.result.value.latestVersion = <<"v", "1.2">>
  /\ ~output.result.value.hasUpdate

\* C17: after a transform the removal count is the number of listed
\* client-side mods that the template or the modpack held (at their path
\* under mods/), none of them is in the output archive, and a transform runs
\* to its end whether or not they are there.
C17_DenylistRemoved ==
  Transformed =>
    /\ output.removed
         = Cardinality({m \in ClientSideMods :
                          input.template[m] # Absent \/ input.modpack[m] # Absent})
    /\ \A m \in ClientSideMods : output.outputZip.files[m] = Absent

\* C17 witness: the inputs held exactly one of the listed mods, a transform
\* completed and counted one removal
C17_OneOfTwoRemoved ==
  /\ Transformed
  /\ input.template["mods/OptiFine_1.7.10_HD_U_E7.jar"] # Absent
  /\ input.template["mods/MapWriter-2.1.21-II-Edition.jar"] = Absent
  /\ input.modpack["mods/MapWriter-2.1.21-II-Edition.jar"] = Absent
  /\ input.modpack["mods/keep.jar"] # Absent
  /\ output.removed = 1
  /\ output.outputZip.files["mods/keep.jar"] = "modpack"

\* C18: every completed transform of the same modpack and template writes
\* the same output archive as the first one, and no file an earlier run (or
\* anything else) left in storage/temp is in it.
C18_SameOutputEveryRun ==
  Transformed =>
    /\ output.outputZip = output.firstZip
    /\ \A p \in TreePaths : output.outputZip.files[p] # "stale"

\* C18 witness: of three runs one failed partway and two completed, the
\* later of them with the archive of the earlier
C18_SecondRunAfterFailure ==
  /\ Transformed /\ output.runs = 3 /\ output.completed = 2
  /\ output.firstZip = output.outputZip
  /\ Present(output.outputZip.files) # {}
  /\ Present(output.tempDir) = {}

\* a GET /version request is being handled in this step
VersionStep == \E r \in Requests : VersionBegin(r) \/ VersionRespond(r)

\* the part of C19 about the frame: a status query leaves the build record,
\* current.txt and latest.zip as they were
C19_QueryChangesNothing ==
  [][VersionStep => UNCHANGED <<record, currentTxt, latestZip, pc>>]_vars

\* a status query whose update probe has come back and which has not been
\* answered yet
PendingQueries == {r \in Requests : Probing(r, "version")}

\* performBuild is inside its call of buildServer, which has no await
BuildServerRunning ==
  pc \in {"clean", "template", "extract", "mods", "scripts", "archive", "archiving",
          "save", "cleanup"}

\* C19: a status query returns without waiting for an in-flight build to
\* advance, at whatever point of the run it is issued: in particular, while
\* buildServer is running, the answer of every pending query of a running
\* server can be sent at once.
C19_QueryNeverWaits ==
  \A r \in PendingQueries :
    (proc = "up" /\ BuildServerRunning) => ENABLED VersionRespond(r)

\* C20: the running flag is cleared only by the run that set it.  A run is
\* accepted only when the run before it has passed both its release points
\* (the finally block and the .catch handler of /building); the flag goes
\* from true to false in a running server only in the finally block of the
\* run in hand; and when the .catch handler runs, the flag is already false
\* and no later run has taken it.
C20_ReleasedByOwnRun ==
  /\ [][(pc # "start" /\ pc' = "start") => pc = "idle"]_vars
  /\ [][(proc = "up" /\ proc' = "up" /\ isBuildInProgress /\ ~isBuildInProgress')
          => pc = "release"]_vars
  /\ [](pc = "dotcatch" => ~isBuildInProgress)

\* C20 witness: a failed run has left its finally block, its .catch handler
\* is about to run, and a trigger whose probe is out is waiting to test the
\* gate
C20_TriggerWaitsAtDotCatch ==
  /\ proc = "up" /\ pc = "dotcatch" /\ ~isBuildInProgress /\ err # ""
  /\ \E r \in Requests : Probing(r, "building")

\* C21: whenever no run is in flight, current.txt holds a version and
\* latest.zip exists, latest.zip is the complete archive of a build of that
\* version.
C21_VersionDescribesArchive ==
  (~RunInFlight /\ currentTxt # 0 /\ latestZip # NoFile) => latestZip = currentTxt

\* the messages verifyDownload throws
VerifierFailures == {"File size mismatch", "MD5 hash mismatch"}

\* C22: the transform of a run starts only after the download has completed
\* and the verifier has accepted the file.  The download resolves (the run
\* goes to the pause of stage 3) only at the end of the body, with a byte
\* count equal to the size the probe carries and, read at that time, the
\* checksum the probe carries (where it carries them); buildServer is entered
\* from that pause only, with stage 2 completed and that byte count.  If the
\* verifier fails, stage 2 becomes failed with that failure and no stage of
\* the transform has left pending.
C22_TransformAfterVerifiedDownload ==
  /\ [][(pc # "pause" /\ pc' = "pause") =>
          /\ pc \in {"stream", "verify"}
          /\ updateInfo.size # 0 => downloadedBytes = updateInfo.size
          /\ updateInfo.md5 # 0 => /\ pc = "verify" /\ modpackTemp # NoFile
                                   /\ MD5Of(modpackTemp) = updateInfo.md5]_vars
  /\ [][(pc # "clean" /\ pc' = "clean") => pc = "pause"]_vars
  /\ [](BuildServerRunning =>
          /\ buildSteps[2].status = "completed"
          /\ updateInfo.size # 0 => downloadedBytes = updateInfo.size)
  /\ []((pc \in {"finally", "release", "dotcatch"} /\ err \in VerifierFailures) =>
          /\ buildSteps[2] = [status |-> "failed", detail |-> err]
          /\ \A i \in 4..NumSteps : buildSteps[i].status = "pending")
  /\ [][(pc # "catch" /\ pc' = "catch" /\ err' \in VerifierFailures)
          => pc \in {"stream", "verify"}]_vars

\* C22 witness: buildServer is entered for a probe that carries a size and a
\* checksum, both of which the downloaded file has
C22_VerifiedThenTransform ==
  /\ proc = "up" /\ pc = "clean"
  /\ updateInfo.size = MaxBody /\ updateInfo.md5 = MD5Of(MaxBody)
  /\ downloadedBytes = MaxBody /\ modpackTemp = MaxBody

\* every byte counted from the response is in modpack-temp.zip
Flushed == dest = "open" /\ modpackTemp = downloadedBytes

\* C23: the verifier reads the file at destPath only after every received
\* byte has been written to it: when calculateMD5 has read the file, the
\* write stream had opened it and put every counted byte into it.
C23_VerifierReadsFlushedFile ==
  [][(proc = "up" /\ proc' = "up" /\ pc = "verify" /\ pc' # "verify") => Flushed]_vars

\* C24: a build is accepted only if it is needed at that moment: no run is
\* started for a version while current.txt holds that version and latest.zip
\* exists.
C24_AcceptedOnlyIfNeeded ==
  [][(pc # "start" /\ pc' = "start") =>
       ~(getCurrentVersion = updateInfo'.latestVersion /\ hasBuiltServer)]_vars

\* C25: in each successful run current.txt is written exactly once, after
\* latest.zip has been completely written and before the scratch workspace
\* and modpack-temp.zip are deleted.  current.txt changes only in step 7, at
\* which latest.zip is this run's complete archive and modpack-temp.zip is
\* still there; a run that goes on from step 7 to step 8 has written its
\* version; and from step 8 on the version and the archive are this run's.
C25_VersionSavedAfterArchive ==
  /\ [][currentTxt' # currentTxt =>
          /\ pc = "save"
          /\ latestZip = updateInfo.latestVersion
          /\ modpackTemp # NoFile]_vars
  /\ [][(pc = "save" /\ pc' = "cleanup") => currentTxt' = updateInfo.latestVersion]_vars
  /\ [][(pc # "save" /\ pc' = "save") => (pc = "archiving" /\ latestZip' = updateInfo.latestVersion)]_vars
  /\ [](pc \in {"cleanup", "finalize"} =>
          /\ currentTxt = updateInfo.latestVersion
          /\ latestZip = updateInfo.latestVersion)

\* C25 witness: step 7 has written the version of the run; the archive is
\* complete and the temporary download is still on the disk
C25_SavedBeforeCleanup ==
  /\ proc = "up" /\ pc = "cleanup"
  /\ currentTxt = updateInfo.latestVersion /\ latestZip = updateInfo.latestVersion
  /\ modpackTemp # NoFile

\* C26: a stage shown as completed stands for work already done: while a run
\* is in flight and stage 8 (creating the server archive) is completed,
\* latest.zip is the complete archive of that run.
C26_CompletedMeansDone ==
  (RunInFlight /\ buildSteps[8].status = "completed") => latestZip = updateInfo.latestVersion

\* C27: if a step of the transform fails, no later step of that transform
\* runs and the failure is raised to the caller.  buildServer is left either
\* from its last step to stage 9 or with an error thrown into performBuild;
\* after a failure no step of buildServer runs until a new run;
\* latest.zip changes only in step 6 and current.txt only in step 7, so a
\* failure before or during the archive writing writes no version, and a
\* failure in a step leaves what the later steps write as it was.
C27_FailedStepEndsTransform ==
  /\ [][(proc' = "up" /\ BuildServerRunning /\ ~BuildServerRunning') =>
          \/ pc = "cleanup" /\ pc' = "finalize"
          \/ pc' = "catch" /\ err' # ""]_vars
  /\ [][(pc \in {"catch", "finally", "release", "dotcatch"}) => ~(BuildServerRunning')]_vars
  /\ [][latestZip' # latestZip => pc \in {"archive", "archiving"} /\ pc' # "catch"]_vars
  /\ [][currentTxt' # currentTxt => pc = "save"]_vars

\* C27 witness: writeZip failed partway; the error is in performBuild's
\* catch block and current.txt does not hold the version of the run
C27_ArchiveWriteFailed ==
  /\ proc = "up" /\ pc = "catch" /\ err = IOError
  /\ latestZip = Partial /\ currentTxt # updateInfo.latestVersion

\* C28: whenever isBuildInProgress is false, no stage has status
\* in-progress.
C28_NoStageInProgressWhenIdle ==
  ~isBuildInProgress => InProgressIds(buildSteps) = {}

\* C28 witness: a run failed in its download; the flag is released and the
\* stage that was in progress is shown as failed
C28_ReleasedAfterFailure ==
  /\ proc = "up" /\ pc = "idle" /\ ~isBuildInProgress
  /\ buildSteps[2].status = "failed"
  /\ buildSteps[1].status = "completed"

\* C29: when a run is accepted every stage is reset to pending with an
\* empty detail before any stage of the run advances: the record is the
\* initial one when performBuild starts, and after its first stage has
\* advanced only stages 1 and 2 differ from it.
C29_FreshRecordForEachRun ==
  /\ [][(pc # "start" /\ pc' = "start") => buildSteps' = InitialSteps]_vars
  /\ [](pc = "start" => buildSteps = InitialSteps)
  /\ [](pc = "link" =>
          buildSteps = [InitialSteps EXCEPT ![1].status = "completed",
                                            ![2].status = "in-progress"])

\* C29 witness: two /building requests of this process have been answered
\* with the progress page and a run has just been accepted: the other request
\* belonged to an earlier run, which has ended, and the record is fresh
C29_SecondRunAccepted ==
  /\ proc = "up" /\ pc = "start" /\ buildSteps = InitialSteps
  /\ \A r \in Requests : /\ req[r].route = "building" /\ req[r].state = "sent"
                         /\ req[r].kind = "progress"

\* C30: a request handled while isBuildInProgress is true changes nothing of
\* the build record and starts nothing: the flag, every stage, the status
\* message, the position of the run, its probe and its download are the same
\* after the handler's step as before it.
C30_TriggerWhileRunningIsNoOp ==
  [][(proc' = "up" /\ isBuildInProgress /\ req' # req) =>
       UNCHANGED <<record, pc, updateInfo, err, dest, downloadedBytes, disk>>]_vars

\* C30 witness: a run accepted for one request is downloading, and the
\* handler of a second /building request has started and waits for its probe
C30_TriggerDuringDownload ==
  /\ proc = "up" /\ isBuildInProgress /\ pc = "stream" /\ downloadedBytes = MaxBody
  /\ \E r, q \in Requests :
       /\ Probing(r, "building")
       /\ req[q].route = "building" /\ req[q].state = "sent" /\ req[q].kind = "progress"

\* the stages shown as completed
CompletedIds(steps) == {i \in DOMAIN steps : steps[i].status = "completed"}

\* C31: when a run ends without failure all nine stages are completed, the
\* flag is false and the status message reports completion; and the stages
\* reach completed in index order, so the completed stages are at every
\* moment the first k of the nine.
C31_SuccessfulRunCompletesAll ==
  /\ [][(proc' = "up" /\ pc = "release" /\ pc' = "idle") =>
          /\ CompletedIds(buildSteps') = StepIds
          /\ ~isBuildInProgress'
          /\ buildProgress' = "Build completed!"]_vars
  /\ [](\A i \in CompletedIds(buildSteps) : \A j \in 1..i : j \in CompletedIds(buildSteps))
  /\ [][\A i \in CompletedIds(buildSteps') \ CompletedIds(buildSteps) :
          \A j \in CompletedIds(buildSteps') \ CompletedIds(buildSteps) : i = j]_vars

\* C31 witness: a run has ended without failure
C31_RunEndedWell ==
  /\ proc = "up" /\ pc = "idle" /\ ~isBuildInProgress
  /\ CompletedIds(buildSteps) = StepIds
  /\ buildProgress = "Build completed!"
  /\ latestZip = currentTxt /\ currentTxt \in Versions

\* C32: current.txt is written during stage 9: at the moment it changes,
\* stage 9 is in-progress and stages 1 to 8 are completed.
C32_VersionWrittenInStageNine ==
  [][currentTxt' # currentTxt =>
       /\ buildSteps[9].status = "in-progress"
       /\ CompletedIds(buildSteps) = 1..8]_vars

\* C33: after a run for the newest file of the catalog has saved its
\* version, reading current.txt back returns exactly that version and the
\* next probe of the unchanged catalog yields hasUpdate = false.
C33_SavedVersionReadBack ==
  output.fn = "saveCurrentVersion" /\ output.step = "probed" =>
    /\ output.currentVersion = output.file
    /\ ~output.hasUpdate

\* the paths the template and the modpack both hold
InBoth == Present(input.template) \cap Present(input.modpack)
\* the files of the workspace after the template copy and the extraction
Merged == Present(input.template) \cup Present(input.modpack)

\* C34: for every relative path present both in the template and in the
\* modpack the output archive holds the modpack's content, and every file of
\* the merged workspace that is not denylisted is in the output archive,
\* under the single top-level prefix.
C34_ArchiveContentWins ==
  Transformed =>
    /\ \A p \in InBoth : output.outputZip.files[p] = "modpack"
    /\ \A p \in Merged \ ClientSideMods : output.outputZip.files[p] # Absent
    /\ output.outputZip.prefix = "minecraft-server"

\* C34, amended: the modpack's content wins over the template's at every
\* path both hold, except the denylisted paths (removed in step 4) and the
\* paths of the two start scripts (written anew in step 5); every file of
\* the merged workspace that is not denylisted is in the output archive,
\* with the content of the modpack where it has the path and is no start
\* script, and every entry is under the one prefix.
C34_ArchiveContentWinsBeforeScripts ==
  Transformed =>
    /\ \A p \in InBoth \ (ClientSideMods \cup ScriptPaths) :
         output.outputZip.files[p] = "modpack"
    /\ \A p \in Present(input.modpack) \ (ClientSideMods \cup ScriptPaths) :
         output.outputZip.files[p] = "modpack"
    /\ \A p \in Merged \ ClientSideMods : output.outputZip.files[p] # Absent
    /\ \A p \in ScriptPaths : output.outputZip.files[p] = "script"
    /\ \A p \in ClientSideMods : output.outputZip.files[p] = Absent
    /\ output.outputZip.prefix = "minecraft-server"

\* C34 witness: the template and the modpack both hold mods/keep.jar and a
\* start.sh; the output has the modpack's jar and the generated script
C34_OverlaidAndScripted ==
  /\ Transformed
  /\ {"mods/keep.jar", "start.sh"} \subseteq InBoth
  /\ output.outputZip.files["mods/keep.jar"] = "modpack"
  /\ output.outputZip.files["start.sh"] = "script"

\* C35: the redirects between /building and /download never form a cycle
\* for a fixed situation: following them, no route is requested a second
\* time.
C35_NoRedirectCycle ==
  input.fn = "get" => ~output.revisited

====
